---- MODULE Spec2Model ----
(***************************************************************************)
(* Model of solar_system_orbits.py: the annual Earth->Mars closest-approach *)
(* scan, the Hohmann transfer estimate, the two charts, the command-line    *)
(* dispatch and the animation's redraw callback.                            *)
(*                                                                          *)
(* Units.  Lengths are integers in milli-AU, durations in centi-days, and   *)
(* a time is the proleptic Gregorian ordinal of its UTC day (the value of   *)
(* date.toordinal()).  The ephemeris is the program's input: it is drawn    *)
(* from a small family of synthetic ephemerides (EphFamily).                *)
(***************************************************************************)
EXTENDS Integers, Sequences, FiniteSets, TLC

VARIABLES
    name_main,      \* TRUE when the file runs as a script (__name__ == '__main__')
    argv,           \* sys.argv[1:]
    pc,             \* position of the program
    eph,            \* the loaded ephemeris (parameters of the synthetic family)
    start_year,     \* arguments of compute_launch_windows
    end_year,
    year,           \* loop variable of the per-year scan
    years,          \* the three parallel result lists
    dates,
    dists,
    stdout,         \* progress lines printed so far
    files,          \* chart files written so far, in order
    transfer_days,  \* Hohmann estimates, one per date
    labels,         \* text labels drawn on the travel-time chart
    error,          \* the exception that ended the run, or "none"
    start_time,     \* ts.now() taken at import
    current_days,   \* simulated days since start_time
    histories,      \* per-body trail buffers {'x': [...], 'y': [...]}
    offsets,        \* last set_offsets() of every body's marker
    date_text,      \* the date shown in the corner of the plot
    shown,          \* history: every position displayed, per body, in order
    frames          \* history: number of redraw callbacks that returned normally

vars == <<name_main, argv, pc, eph, start_year, end_year, year, years, dates,
          dists, stdout, files, transfer_days, labels, error, start_time,
          current_days, histories, offsets, date_text, shown, frames>>

scanVars == <<start_year, end_year, year, years, dates, dists, stdout, files,
              transfer_days, labels>>
animVars == <<current_days, histories, offsets, date_text, shown, frames>>

-----------------------------------------------------------------------------
(* Bounds of the model *)

\* a direct call scans at most MaxSpan + 1 years
MaxSpan == 2
\* the timer fires at most TRAIL_LENGTH + ExtraFrames times before the window closes
ExtraFrames == 3

-----------------------------------------------------------------------------
(* Configuration constants *)

DAYS_PER_FRAME == 5
TRAIL_LENGTH == 50
AXIS_LIMIT == 40
TARGET_PLANETS == <<"mercury", "venus", "earth", "mars",
                    "jupiter barycenter", "saturn barycenter",
                    "uranus barycenter", "neptune barycenter">>
\* GM_SUN = 0.0002959122082855911 AU^3/day^2, kept to five digits: 29591e-8
GM_SUN_E8 == 29591
\* math.pi kept to five digits: 31416e-4
PI_E4 == 31416
\* np.inf: larger than every distance
Inf == 2147483647
None == <<>>
\* range(0, 366)
SampleCountShort == 366 - 1
SampleCount == 366
\* the defaults of compute_launch_windows, also the arguments __main__ passes
DefaultStartYear == 2025
DefaultEndYear == 2045
dist_chart == "launch_windows.png"
time_chart == "travel_times.png"

-----------------------------------------------------------------------------
(* Integer helpers *)

RECURSIVE SqrtSearch(_, _, _)
SqrtSearch(n, lo, hi) ==
    IF lo >= hi THEN lo
    ELSE LET mid == (lo + hi + 1) \div 2
         IN  IF mid * mid <= n THEN SqrtSearch(n, mid, hi)
                               ELSE SqrtSearch(n, lo, mid - 1)

\* floor of the square root, for 0 <= n < 2^31
ISqrt(n) == SqrtSearch(n, 0, 46340)

Abs(a) == IF a < 0 THEN -a ELSE a

\* np.hypot on integer coordinates (exact when the point lies on an axis)
Hypot(a, b) ==
    IF b = 0 THEN Abs(a) ELSE IF a = 0 THEN Abs(b) ELSE ISqrt(a * a + b * b)

-----------------------------------------------------------------------------
(* datetime: the proleptic Gregorian calendar *)

IsLeap(y) == y % 4 = 0 /\ (y % 100 # 0 \/ y % 400 = 0)

DAYS_IN_MONTH == <<31, 28, 31, 30, 31, 30, 31, 31, 30, 31, 30, 31>>

\* days of a non-leap year before the first of month m
DAYS_BEFORE_MONTH == <<0, 31, 59, 90, 120, 151, 181, 212, 243, 273, 304, 334>>
DaysBeforeMonthPlain(m) == DAYS_BEFORE_MONTH[m]

DaysBeforeMonth(y, m) ==
    DaysBeforeMonthPlain(m) + (IF m > 2 /\ IsLeap(y) THEN 1 ELSE 0)

DaysBeforeYear(y) ==
    LET p == y - 1 IN p * 365 + p \div 4 - p \div 100 + p \div 400

\* date(y, m, d).toordinal()
Ymd2Ord(y, m, d) == DaysBeforeYear(y) + DaysBeforeMonth(y, m) + d

\* date.fromordinal(n), as datetime._ord2ymd computes it
Ord2Ymd(ord) ==
    LET n0   == ord - 1
        n400 == n0 \div 146097
        r400 == n0 % 146097
        n100 == r400 \div 36524
        r100 == r400 % 36524
        n4   == r100 \div 1461
        r4   == r100 % 1461
        n1   == r4 \div 365
        n    == r4 % 365
        y    == n400 * 400 + 1 + n100 * 100 + n4 * 4 + n1
    IN  IF n1 = 4 \/ n100 = 4 THEN <<y - 1, 12, 31>>
        ELSE LET leap == n1 = 3 /\ (n4 # 24 \/ n100 = 3)
                 lp(m) == IF leap /\ m > 2 THEN 1 ELSE 0
                 m0   == (n + 50) \div 32
                 pre0 == DaysBeforeMonthPlain(m0) + lp(m0)
                 m    == IF pre0 > n THEN m0 - 1 ELSE m0
                 pre  == IF pre0 > n
                            THEN pre0 - (DAYS_IN_MONTH[m] + (IF m = 2 /\ leap THEN 1 ELSE 0))
                            ELSE pre0
             IN  <<y, m, n - pre + 1>>

\* datetime(year, 1, 1) + timedelta(days=offset)
AddDays(y, offset) == Ord2Ymd(Ymd2Ord(y, 1, 1) + offset)

\* ts.utc(dt.year, dt.month, dt.day): the time of that day's midnight UTC
Utc(dt) == Ymd2Ord(dt[1], dt[2], dt[3])

-----------------------------------------------------------------------------
(* The ephemeris (de421.bsp as skyfield serves it) *)

\* DE421 covers 1899-07-29 .. 2053-10-09
CovStart == Ymd2Ord(1899, 7, 29)
CovEnd == Ymd2Ord(2053, 10, 9)

\* eph[...] raises for a time outside the kernel's coverage
Resolves(t) == CovStart <= t /\ t <= CovEnd

\* days on which a synthetic ephemeris may bring Mars close to the Earth:
DipDays == {Ymd2Ord(2024, 1, 1), Ymd2Ord(2025, 1, 1), Ymd2Ord(2025, 3, 15),
            Ymd2Ord(2026, 1, 1)}
DipGaps == {524, 380}

\* a synthetic ephemeris: up to two close approaches, a at gap 524 and b at gapB
EphFamily == {e \in [a : DipDays, b : DipDays, gapB : DipGaps] : e.a <= e.b}

\* unit vector of the quadrant q
Axis(q) == <<(<<1, 0, -1, 0>>)[q + 1], (<<0, 1, 0, -1>>)[q + 1]>>

OnAxis(r, q) == <<r * Axis(q)[1], r * Axis(q)[2]>>

EarthR(t) == 983 + (t % 3) * 17
\* Earth and Mars turn together, a quarter of a circle every 91 days
EarthQ(t) == (t \div 91) % 4

\* heliocentric radius of Mars and the side of the Sun it is on
MarsFar(t) == (t \div 150) % 3 = 0
MarsR(e, t) ==
    IF t = e.b THEN EarthR(t) + e.gapB
    ELSE IF t = e.a THEN EarthR(t) + 524
    ELSE 1600 + ((t * 7) % 11) * 6
MarsSide(e, t) == IF t = e.a \/ t = e.b THEN 1 ELSE IF MarsFar(t) THEN -1 ELSE 1

\* radius (milli-AU) and days per quarter orbit of the other bodies
OtherR == [n \in {"mercury", "venus", "jupiter barycenter", "saturn barycenter",
                  "uranus barycenter", "neptune barycenter"} |->
             CASE n = "mercury" -> 387
               [] n = "venus" -> 723
               [] n = "jupiter barycenter" -> 5203
               [] n = "saturn barycenter" -> 9537
               [] n = "uranus barycenter" -> 19191
               [] n = "neptune barycenter" -> 30069]
OtherQuarter == [n \in DOMAIN OtherR |->
             CASE n = "mercury" -> 22
               [] n = "venus" -> 56
               [] n = "jupiter barycenter" -> 1083
               [] n = "saturn barycenter" -> 2690
               [] n = "uranus barycenter" -> 7672
               [] n = "neptune barycenter" -> 15048]

\* sun.at(t).observe(body).position.au, first two components
Position(e, t, name) ==
    CASE name = "earth" -> OnAxis(EarthR(t), EarthQ(t))
      [] name = "mars"  -> OnAxis(MarsSide(e, t) * MarsR(e, t), EarthQ(t))
      [] OTHER          -> OnAxis(OtherR[name], (t \div OtherQuarter[name]) % 4)

-----------------------------------------------------------------------------
(* Helper functions of the program *)

\* get_planet_xy(t, name); only called on times the kernel resolves
get_planet_xy(e, t, name) == Position(e, t, name)

\* earth_mars_distance(t)
earth_mars_distance(e, t) ==
    LET pe == get_planet_xy(e, t, "earth")
        pm == get_planet_xy(e, t, "mars")
    IN  Hypot(pm[1] - pe[1], pm[2] - pe[2])

\* 1000 * ln(1 + r) for r = 0 .. 41 AU
LOG1P_MILLI == <<0, 693, 1099, 1386, 1609, 1792, 1946, 2079, 2197, 2303, 2398,
                 2485, 2565, 2639, 2708, 2773, 2833, 2890, 2944, 2996, 3045,
                 3091, 3135, 3178, 3219, 3258, 3296, 3332, 3367, 3401, 3434,
                 3466, 3497, 3526, 3555, 3584, 3611, 3638, 3664, 3689, 3714,
                 3738>>

\* np.log1p of a radius in milli-AU (0 <= r < 41 AU), times 1000: the table,
\* interpolated linearly between whole AU
Log1p(r) ==
    LET k == r \div 1000
        f == r % 1000
    IN  LOG1P_MILLI[k + 1] + ((LOG1P_MILLI[k + 2] - LOG1P_MILLI[k + 1]) * f) \div 1000

\* radial_exaggerate(x, y): cos(theta) = x / r and sin(theta) = y / r
radial_exaggerate(x, y) ==
    LET r == Hypot(x, y)
    IN  IF r = 0 THEN <<0, 0>>
        ELSE LET r_new == (Log1p(r) * AXIS_LIMIT * 1000) \div Log1p(AXIS_LIMIT * 1000)
             IN  <<(r_new * x) \div r, (r_new * y) \div r>>

-----------------------------------------------------------------------------
(* The closest-approach scan of one year (inner loop) *)

\* the comparison that replaces the stored best
CloserOrEqual(dist, best_dist) == dist <= best_dist
Closer(dist, best_dist) == dist < best_dist

\* the body of the loop, were it to skip a sample the kernel cannot resolve
SampleSkipping(e, y, offset, st) ==
    LET dt == AddDays(y, offset)
        t  == Utc(dt)
    IN  IF ~Resolves(t)
        THEN st
        ELSE LET dist == earth_mars_distance(e, t)
             IN  IF Closer(dist, st.best_dist)
                 THEN [raised |-> FALSE, best_date |-> dt, best_dist |-> dist]
                 ELSE st

\* the body of the loop for one offset, from the state st of the loop before
\* it.  A sample the kernel cannot resolve raises: the loop ends there.
Sample(e, y, offset, st) ==
    LET dt == AddDays(y, offset)
        t  == Utc(dt)
    IN  IF ~Resolves(t)
        THEN [st EXCEPT !.raised = TRUE]
        ELSE LET dist == earth_mars_distance(e, t)
             IN  IF Closer(dist, st.best_dist)
                 THEN [raised |-> FALSE, best_date |-> dt, best_dist |-> dist]
                 ELSE st

\* `for offset in range(lo, hi)` from the state st, in ascending order of
\* offset, ended by the first sample that raises (the range is split in
\* halves to keep the evaluation shallow)
RECURSIVE ScanFrom(_, _, _, _, _)
ScanFrom(e, y, lo, hi, st) ==
    IF lo >= hi THEN st
    ELSE IF hi = lo + 1 THEN Sample(e, y, lo, st)
    ELSE LET mid  == (lo + hi) \div 2
             left == ScanFrom(e, y, lo, mid, st)
         IN  IF left.raised THEN left ELSE ScanFrom(e, y, mid, hi, left)

\* best_date, best_dist = None, np.inf; then the loop
ScanYear(e, y) ==
    ScanFrom(e, y, 0, SampleCount,
             [raised |-> FALSE, best_date |-> None, best_dist |-> Inf])

-----------------------------------------------------------------------------
(* The transfer estimate and the chart labels *)

\* the estimate with the sum of the radii taken for the semi-major axis
HohmannDaysUnhalved(r_e, r_m) ==
    LET a_trans == r_e + r_m
        a3   == ((a_trans * a_trans) \div 100) * a_trans
        q    == (a3 * 10) \div GM_SUN_E8
        root == ISqrt(q * 10000)
    IN  (PI_E4 * root) \div 10000

\* T_days = math.pi * math.sqrt(a_trans**3 / GM_SUN) with a_trans = (r_e + r_m) / 2,
\* radii in milli-AU, the result in centi-days:
\*   a3   = a_trans^3 in 1e-7 AU^3
\*   q    = a3 / GM_SUN in days^2
\*   root = sqrt(q) in centi-days
HohmannDays(r_e, r_m) ==
    LET a_trans == (r_e + r_m) \div 2
        a3   == ((a_trans * a_trans) \div 100) * a_trans
        q    == (a3 * 10) \div GM_SUN_E8
        root == ISqrt(q * 10000)
    IN  (PI_E4 * root) \div 10000

\* the radii at a date, as the estimate's loop takes them
RadiusAt(e, dt, name) ==
    LET p == get_planet_xy(e, Utc(dt), name) IN Hypot(p[1], p[2])

TransferAt(e, dt) == HohmannDays(RadiusAt(e, dt, "earth"), RadiusAt(e, dt, "mars"))

\* months = int(td // 30); days = int(td % 30), td in centi-days
LabelMonthsCalendar(td) == td \div 3100
LabelMonths(td) == td \div 3000
LabelDays(td) == (td % 3000) \div 100

\* f"{months}m{days}d"
Label(td) == ToString(LabelMonths(td)) \o "m" \o ToString(LabelDays(td)) \o "d"

\* dt.strftime('%Y-%m-%d') and f"{best_dist:.3f}" of the progress line
ProgressLine(y, best_date, best_dist) == <<y, best_date, best_dist>>

-----------------------------------------------------------------------------
(* Inputs *)

\* first years of the ranges a caller passes; the last year is drawn from
\* start_year - 1 .. start_year + MaxSpan
StartYears == {1899, 2023, 2025, 2052}

\* what sys.argv[1:] may hold
ArgvChoices == {<<>>, <<"windows">>, <<"orbits">>}

\* the day the program is started: 2026-11-02, or a day late in the kernel's
\* coverage.  Only the animation reads the clock; the other runs start on Now0.
Now0 == Ymd2Ord(2026, 11, 2)
NowChoices == {Now0, CovEnd - 257, CovEnd - 22}

Bodies == {TARGET_PLANETS[i] : i \in DOMAIN TARGET_PLANETS}

-----------------------------------------------------------------------------
(* State after the module-level code has run *)

Init ==
    /\ name_main \in BOOLEAN
    /\ argv \in (IF name_main THEN ArgvChoices ELSE {<<>>})
    /\ eph \in EphFamily
    /\ start_time \in (IF name_main /\ argv # <<"windows">> THEN NowChoices ELSE {Now0})
    /\ pc = "main"
    /\ start_year = 0 /\ end_year = 0 /\ year = 0
    /\ years = <<>> /\ dates = <<>> /\ dists = <<>>
    /\ stdout = <<>> /\ files = <<>>
    /\ transfer_days = <<>> /\ labels = <<>>
    /\ error = "none"
    /\ current_days = 0
    /\ histories = [n \in Bodies |-> [x |-> <<>>, y |-> <<>>]]
    /\ offsets = [n \in Bodies |-> <<>>]
    /\ date_text = ""
    /\ shown = [n \in Bodies |-> <<>>]
    /\ frames = 0

-----------------------------------------------------------------------------
(* compute_launch_windows *)

\* year is still in range(start_year, end_year + 1)
InRangeExclusive(y, e) == y < e
InRange(y, e) == y <= e

\* entry: years, dates, dists = [], [], [] and the first value of the loop
Enter(s, e) ==
    /\ start_year' = s /\ end_year' = e /\ year' = s
    /\ years' = <<>> /\ dates' = <<>> /\ dists' = <<>>
    /\ pc' = "scan"
    /\ UNCHANGED <<stdout, files, transfer_days, labels, error>>

\* a caller that imported the module calls compute_launch_windows(s, e)
Call ==
    /\ pc = "main" /\ ~name_main
    /\ \E s \in StartYears : \E e \in (s - 1)..(s + MaxSpan) : Enter(s, e)
    /\ UNCHANGED <<name_main, argv, eph, start_time>>
    /\ UNCHANGED animVars

\* one iteration of `for year in range(start_year, end_year + 1)`
YearStep ==
    /\ pc = "scan" /\ InRange(year, end_year)
    /\ \E r \in {ScanYear(eph, year)} :
           IF r.raised
           THEN /\ pc' = "error"
                /\ error' = "EphemerisRangeError"
                /\ UNCHANGED <<year, years, dates, dists, stdout>>
           ELSE /\ years' = Append(years, year)
                /\ dates' = Append(dates, r.best_date)
                /\ dists' = Append(dists, r.best_dist)
                /\ stdout' = Append(stdout, ProgressLine(year, r.best_date, r.best_dist))
                /\ year' = year + 1
                /\ UNCHANGED <<pc, error>>
    /\ UNCHANGED <<name_main, argv, eph, start_time, start_year, end_year,
                   files, transfer_days, labels>>
    /\ UNCHANGED animVars

\* the loop is exhausted: plot the distances and save the first chart
PlotDistances ==
    /\ pc = "scan" /\ ~InRange(year, end_year)
    /\ files' = Append(files, dist_chart)
    /\ stdout' = Append(stdout, <<"Saved distance chart to", dist_chart>>)
    /\ pc' = "transfers"
    /\ UNCHANGED <<name_main, argv, eph, start_time, start_year, end_year, year,
                   years, dates, dists, transfer_days, labels, error>>
    /\ UNCHANGED animVars

\* the transfer time of every date
Transfers ==
    /\ pc = "transfers"
    /\ IF \E i \in DOMAIN dates : ~Resolves(Utc(dates[i]))
       THEN /\ pc' = "error"
            /\ error' = "EphemerisRangeError"
            /\ UNCHANGED transfer_days
       ELSE /\ transfer_days' = [i \in DOMAIN dates |-> TransferAt(eph, dates[i])]
            /\ pc' = "time_chart"
            /\ UNCHANGED error
    /\ UNCHANGED <<name_main, argv, eph, start_time, start_year, end_year, year,
                   years, dates, dists, stdout, files, labels>>
    /\ UNCHANGED animVars

\* plot the transfer times with their labels and save the second chart
PlotTimes ==
    /\ pc = "time_chart"
    /\ labels' = [i \in DOMAIN transfer_days |-> Label(transfer_days[i])]
    /\ files' = Append(files, time_chart)
    /\ stdout' = Append(stdout, <<"Saved transfer time chart to", time_chart>>)
    /\ pc' = "done"
    /\ UNCHANGED <<name_main, argv, eph, start_time, start_year, end_year, year,
                   years, dates, dists, transfer_days, error>>
    /\ UNCHANGED animVars

-----------------------------------------------------------------------------
(* The animation *)

\* the same with the newest point dropped instead of the oldest
PushTrailDropNewest(h, x, y) ==
    LET hx == Append(h.x, x)
        hy == Append(h.y, y)
    IN  IF Len(hx) > TRAIL_LENGTH
        THEN [x |-> SubSeq(hx, 1, Len(hx) - 1), y |-> SubSeq(hy, 1, Len(hy) - 1)]
        ELSE [x |-> hx, y |-> hy]

\* h['x'].append(x); h['y'].append(y); drop the oldest point beyond TRAIL_LENGTH
PushTrail(h, x, y) ==
    LET hx == Append(h.x, x)
        hy == Append(h.y, y)
    IN  IF Len(hx) > TRAIL_LENGTH
        THEN [x |-> Tail(hx), y |-> Tail(hy)]
        ELSE [x |-> hx, y |-> hy]

\* the displayed position of a body at time t
Displayed(e, t, name) ==
    LET p == get_planet_xy(e, t, name) IN radial_exaggerate(p[1], p[2])

\* update(frame), called by the animation's timer.  All bodies come from one
\* kernel, so a time it cannot resolve raises at the first body, before any
\* buffer is touched; the GUI backend then either reports the exception and
\* keeps the timer running or lets it end the program.
Update ==
    /\ pc = "animate"
    /\ current_days < (TRAIL_LENGTH + ExtraFrames) * DAYS_PER_FRAME
    /\ current_days' = current_days + DAYS_PER_FRAME
    /\ LET t == start_time + current_days'
       IN  IF ~Resolves(t)
           THEN /\ \/ pc' = "error" /\ error' = "EphemerisRangeError"
                   \/ UNCHANGED <<pc, error>>
                /\ UNCHANGED <<histories, offsets, date_text, shown, frames>>
           ELSE /\ histories' = [n \in Bodies |->
                      LET d == Displayed(eph, t, n) IN PushTrail(histories[n], d[1], d[2])]
                /\ offsets' = [n \in Bodies |-> Displayed(eph, t, n)]
                /\ shown' = [n \in Bodies |-> Append(shown[n], Displayed(eph, t, n))]
                /\ date_text' = Ord2Ymd(t)
                /\ frames' = frames + 1
                /\ UNCHANGED <<pc, error>>
    /\ UNCHANGED <<name_main, argv, eph, start_time>>
    /\ UNCHANGED scanVars

\* the window is closed: plt.show() returns and the script ends
CloseWindow ==
    /\ pc = "animate"
    /\ pc' = "done"
    /\ UNCHANGED <<name_main, argv, eph, start_time, error>>
    /\ UNCHANGED scanVars
    /\ UNCHANGED animVars

-----------------------------------------------------------------------------
(* __main__ *)

\* len(sys.argv) > 1 and sys.argv[1] == 'windows', on a == sys.argv[1:]
WantsWindowsShifted(a) == Len(a) > 1 /\ a[2] = "windows"
WantsWindows(a) == Len(a) > 0 /\ a[1] = "windows"

MainWindows ==
    /\ pc = "main" /\ name_main
    /\ WantsWindows(argv)
    /\ Enter(DefaultStartYear, DefaultEndYear)
    /\ UNCHANGED <<name_main, argv, eph, start_time>>
    /\ UNCHANGED animVars

MainAnimate ==
    /\ pc = "main" /\ name_main
    /\ ~WantsWindows(argv)
    /\ pc' = "animate"
    /\ UNCHANGED <<name_main, argv, eph, start_time, error>>
    /\ UNCHANGED scanVars
    /\ UNCHANGED animVars

-----------------------------------------------------------------------------

Next ==
    \/ MainWindows
    \/ MainAnimate
    \/ Call
    \/ YearStep
    \/ PlotDistances
    \/ Transfers
    \/ PlotTimes
    \/ Update
    \/ CloseWindow

Spec == Init /\ [][Next]_vars

-----------------------------------------------------------------------------
(* The label formatting on its own: the second chart is drawn for one       *)
(* transfer duration drawn from the quarter days 0, 0.25, ... days          *)

MaxQuarterDays == 400

DurationInputs == {25 * k : k \in 0..MaxQuarterDays}

InitLabel ==
    /\ name_main = FALSE /\ argv = <<>>
    /\ eph = [a |-> Ymd2Ord(2025, 1, 1), b |-> Ymd2Ord(2025, 1, 1), gapB |-> 524]
    /\ start_time = Now0
    /\ pc = "time_chart"
    /\ start_year = 2025 /\ end_year = 2025 /\ year = 2026
    /\ years = <<2025>> /\ dates = << <<2025, 1, 1>> >> /\ dists = <<524>>
    /\ stdout = << ProgressLine(2025, <<2025, 1, 1>>, 524),
                   <<"Saved distance chart to", dist_chart>> >>
    /\ files = <<dist_chart>>
    /\ transfer_days \in {<<d>> : d \in DurationInputs}
    /\ labels = <<>>
    /\ error = "none"
    /\ current_days = 0
    /\ histories = [n \in Bodies |-> [x |-> <<>>, y |-> <<>>]]
    /\ offsets = [n \in Bodies |-> <<>>]
    /\ date_text = ""
    /\ shown = [n \in Bodies |-> <<>>]
    /\ frames = 0

LabelSpec == InitLabel /\ [][PlotTimes]_vars

-----------------------------------------------------------------------------

(* Properties *)

\* the run is one that calls compute_launch_windows
ScanMode == ~name_main \/ argv = <<"windows">>

\* the distance the ephemeris gives for the sample at offset o of year y
SampleDate(y, o) == AddDays(y, o)
SampleResolves(y, o) == Resolves(Utc(SampleDate(y, o)))
SampleDist(y, o) == earth_mars_distance(eph, Utc(SampleDate(y, o)))
AllResolve(y) == \A o \in 0..365 : SampleResolves(y, o)

\* the records appended by a step
NewRecords == DOMAIN years' \ DOMAIN years

\* C1: a run over start_year <= end_year whose samples all resolve ends with
\* exactly one record per year of the range, in ascending order of year (the
\* three lists have end_year - start_year + 1 entries), and with both chart
\* files written after the records; such a run raises only if a sample of the
\* year being scanned does not resolve.
C1_OneRecordPerYear ==
    (ScanMode /\ pc # "main" /\ start_year <= end_year) =>
        /\ (files # <<>> \/ pc = "done") =>
              /\ years = [i \in 1..(end_year - start_year + 1) |-> start_year + i - 1]
              /\ Len(dates) = Len(years)
              /\ Len(dists) = Len(years)
        /\ pc = "done" => files = <<dist_chart, time_chart>>
        /\ pc = "error" => \E o \in 0..365 : ~SampleResolves(year, o)

C1_Witness ==
    /\ ~name_main /\ pc = "done"
    /\ start_year = 2025 /\ end_year = 2026
    /\ years = <<2025, 2026>> /\ Len(dates) = 2 /\ Len(dists) = 2
    /\ files = <<dist_chart, time_chart>>

\* C2: every record of a year Y has its date within [Jan 1, Dec 31] of Y and
\* a distance >= 0.
C2_DateWithinYear ==
    \A i \in DOMAIN years :
        /\ dates[i][1] = years[i]
        /\ Ymd2Ord(years[i], 1, 1) <= Utc(dates[i])
        /\ Utc(dates[i]) <= Ymd2Ord(years[i], 12, 31)
        /\ dists[i] >= 0

\* C3: the distance stored for a year is the minimum of the distance over
\* the samples at offsets 0..365 from Jan 1 of that year, the stored date is
\* one of those samples and attains it; a stored record is never changed.
C3_StoredIsMinimum ==
    [][ /\ \A i \in NewRecords :
              /\ \A o \in 0..365 : dists'[i] <= SampleDist(years'[i], o)
              /\ \E o \in 0..365 : /\ dates'[i] = SampleDate(years'[i], o)
                                   /\ dists'[i] = SampleDist(years'[i], o)
        /\ \A i \in DOMAIN years \cap DOMAIN years' :
              years'[i] = years[i] /\ dates'[i] = dates[i] /\ dists'[i] = dists[i]
      ]_vars

\* a year whose minimum is at the close approach of 2025-03-15, not at an end
C3_Witness ==
    \E i \in DOMAIN years :
        years[i] = 2025 /\ dates[i] = <<2025, 3, 15>> /\ dists[i] = 380

\* C4: when several samples of a year attain the minimum, the record holds
\* the earliest of them: no sample before the stored date is as close.
C4_EarliestWins ==
    [][ \A i \in NewRecords :
            \A o \in 0..365 :
                Utc(SampleDate(years'[i], o)) < Utc(dates'[i])
                    => SampleDist(years'[i], o) > dists'[i]
      ]_vars

\* 2025 with two equal minima, on 2025-01-01 and on 2025-03-15
C4_Witness ==
    /\ eph.a = Ymd2Ord(2025, 1, 1) /\ eph.b = Ymd2Ord(2025, 3, 15)
    /\ \E i \in DOMAIN years :
          /\ years[i] = 2025
          /\ dates[i] = <<2025, 1, 1>>
          /\ earth_mars_distance(eph, Ymd2Ord(2025, 3, 15)) = dists[i]

\* C5: a sample the ephemeris cannot resolve ends the run with the error: no
\* chart file is or has been written, the year being scanned gets no record,
\* and a year that has a record, or a range whose chart is written, has all
\* of its samples resolved (none was skipped).
C5_AbortOnUnresolved ==
    /\ (ScanMode /\ pc = "error") =>
          /\ error = "EphemerisRangeError"
          /\ files = <<>> /\ transfer_days = <<>> /\ labels = <<>>
          /\ \A i \in DOMAIN years : years[i] < year
          /\ \E o \in 0..365 : ~SampleResolves(year, o)
    /\ years # <<>> => AllResolve(years[Len(years)])
    /\ (ScanMode /\ files # <<>>) => \A y \in start_year..end_year : AllResolve(y)

\* the scan of 2052..2053 stopped in 2053, after the record of 2052
C5_Witness ==
    /\ pc = "error" /\ start_year = 2052 /\ year = 2053 /\ years = <<2052>>
    /\ files = <<>>

\* C6: a call with start_year > end_year does not complete normally and
\* writes no chart file.
C6_EmptyRangeRejected ==
    (ScanMode /\ pc # "main" /\ start_year > end_year) =>
        (pc # "done" /\ files = <<>>)

\* C7: with the argument `windows` the program never animates, writes
\* launch_windows.png and then travel_times.png, never raises and every step
\* brings it nearer to its end, where both files are written; with no
\* argument its first step starts the animation and it never scans or writes
\* a file.
CliWindows == name_main /\ argv = <<"windows">>
CliNoArgument == name_main /\ argv = <<>>

\* steps left to the end of a `windows` run: it falls with every step
Remaining ==
    CASE pc = "main"       -> 4 + (DefaultEndYear + 1 - DefaultStartYear)
      [] pc = "scan"       -> 3 + (end_year + 1 - year)
      [] pc = "transfers"  -> 2
      [] pc = "time_chart" -> 1
      [] OTHER             -> 0

C7_CliDispatch ==
    /\ [](CliWindows =>
            /\ pc \in {"main", "scan", "transfers", "time_chart", "done"}
            /\ current_days = 0 /\ frames = 0
            /\ files \in {<<>>, <<dist_chart>>, <<dist_chart, time_chart>>}
            /\ pc = "done" <=> files = <<dist_chart, time_chart>>)
    /\ [][CliWindows => (Remaining' < Remaining /\ Remaining' >= 0)]_vars
    /\ [](CliNoArgument =>
            /\ pc \in {"main", "animate", "done", "error"}
            /\ years = <<>> /\ files = <<>> /\ stdout = <<>>)
    /\ [][(CliNoArgument /\ pc = "main") => pc' = "animate"]_vars

C7_Witness ==
    /\ CliWindows /\ pc = "done"
    /\ Len(years) = 21 /\ files = <<dist_chart, time_chart>>

\* C8: every record has one transfer estimate, computed by the Hohmann
\* formula from the heliocentric radii of the Earth and of Mars at the
\* record's date; for radii 1.0 AU and 1.524 AU it is 259 days within a day.
HelioRadius(t, name) ==
    LET p == Position(eph, t, name) IN Hypot(p[1], p[2])

C8_TransferEstimate ==
    (ScanMode /\ pc \in {"time_chart", "done"}) =>
        /\ DOMAIN transfer_days = DOMAIN dates
        /\ \A i \in DOMAIN dates :
              LET t   == Ymd2Ord(dates[i][1], dates[i][2], dates[i][3])
                  r_e == HelioRadius(t, "earth")
                  r_m == HelioRadius(t, "mars")
              IN  /\ transfer_days[i] = HohmannDays(r_e, r_m)
                  /\ (r_e = 1000 /\ r_m = 1524) =>
                        (25800 <= transfer_days[i] /\ transfer_days[i] <= 26000)

C8_Witness ==
    /\ pc = "done" /\ ScanMode
    /\ \E i \in DOMAIN dates :
          /\ HelioRadius(Utc(dates[i]), "earth") = 1000
          /\ HelioRadius(Utc(dates[i]), "mars") = 1524
          /\ transfer_days[i] \in 25800..26000

\* C9: the label of a duration of d days is "{months}m{days}d" where
\* 0 <= days < 30 and 30 * months + days is d rounded down to whole days;
\* 75 days is labelled "2m15d".
C9_LabelFormat ==
    pc = "done" =>
        /\ DOMAIN labels = DOMAIN transfer_days
        /\ \A i \in DOMAIN transfer_days :
              LET whole == transfer_days[i] \div 100
              IN  /\ \E m \in 0..(whole \div 30 + 1) : \E d \in 0..29 :
                        /\ 30 * m + d = whole
                        /\ labels[i] = ToString(m) \o "m" \o ToString(d) \o "d"
                  /\ transfer_days[i] = 7500 => labels[i] = "2m15d"

C9_Witness ==
    pc = "done" /\ transfer_days = <<7500>> /\ labels = <<"2m15d">>

\* C10: after n redraws that returned normally, the trail of every body is
\* the last min(n, TRAIL_LENGTH) positions displayed for it, in the order
\* they were displayed; x and y have the same length.
Min(a, b) == IF a < b THEN a ELSE b

C10_TrailWindow ==
    \A n \in Bodies :
        LET h == histories[n]
            k == Min(frames, TRAIL_LENGTH)
        IN  /\ Len(shown[n]) = frames
            /\ Len(h.x) = k /\ Len(h.y) = k
            /\ Len(h.x) <= TRAIL_LENGTH
            /\ \A i \in 1..k : <<h.x[i], h.y[i]>> = shown[n][frames - k + i]

\* a redraw that dropped the oldest point: the trail is the last TRAIL_LENGTH
\* positions displayed and no longer the first TRAIL_LENGTH
C10_Witness ==
    /\ frames > TRAIL_LENGTH
    /\ Len(histories["mercury"].x) = TRAIL_LENGTH
    /\ histories["mercury"].x = SubSeq([i \in 1..frames |-> shown["mercury"][i][1]],
                                       frames - TRAIL_LENGTH + 1, frames)
    /\ histories["mercury"].x # SubSeq([i \in 1..frames |-> shown["mercury"][i][1]],
                                       1, TRAIL_LENGTH)

TypeOK ==
    /\ pc \in {"main", "scan", "transfers", "time_chart", "animate", "done", "error"}
    /\ Len(years) = Len(dates) /\ Len(dates) = Len(dists)

====
